---- MODULE Spec2Model ----
(***************************************************************************)
(* A model of check_mysql_health.py: the MySQLServer object (overall       *)
(* state, message buckets, perf-data list, connections), its checks, the   *)
(* status method that runs the enabled checks in a fixed order and prints  *)
(* the report, and main, which builds the object and exits with the value  *)
(* status returns.                                                         *)
(*                                                                         *)
(* Conventions.  A formatted string is a tuple whose first element is the  *)
(* template and whose other elements are the formatted values.  A value   *)
(* that may be None is a tuple: <<>> is None and <<n>> is n.  A value that *)
(* may arrive as a number or as a string is a record [type, v].  A check   *)
(* is an operator from the object (and the arguments and the database's    *)
(* answers) to the object; the field exc names the exception that left the *)
(* method, "" when it returned.                                            *)
(***************************************************************************)
EXTENDS Integers, Sequences, FiniteSets

VARIABLES
    pc,         \* "main": before the object is built; "status": in status; "exit"
    srv,        \* the MySQLServer object, with the lines printed so far
    ran,        \* the checks invoked so far, in invocation order
    exit_code,  \* the process exit code, -1 while the process runs
    call,       \* the last call made: the check (or "connect") and its inputs
    plan,       \* the runs the behaviour covers: every check, or one check
    finalized   \* the object as the first _print_status found it

vars == <<pc, srv, ran, exit_code, call, plan, finalized>>

----------------------------------------------------------------------------
(* Program constants *)

state_ok == 0
state_warning == 1
state_critical == 2
state_unknown == 3

MYSQL_HOST_NOT_ALLOWED == 1130
MYSQL_UNKOWN_HOST == 2005
MYSQL_ACCESS_DENIED == 1045
MYSQL_REPLICATION_SLAVE_PRIV == 1227

\* What Python exits with when an exception reaches the top level.
PY_UNCAUGHT_EXIT == 1

None == <<>>
Some(n) == <<n>>
\* A number as Python holds it.  --connections-critical has no type=int: its
\* default 95 is an int and every value given on the command line is a str.
Int_(n) == [type |-> "int", v |-> n]
Str_(n) == [type |-> "str", v |-> n]

----------------------------------------------------------------------------
(* Bounds of the model *)

\* Counts the database reports (connections, threads, replica hosts): 0..MaxCount
MaxCount == 2
\* Thresholds given on the command line for the count checks: -1..MaxThreshold
MaxThreshold == 2
\* Calls of checks in the runs where the checks are called in any order
MaxCalls == 2

----------------------------------------------------------------------------
(* Helpers of the object *)


\* MySQLServer.__init__, lines 65-75: the fields before the connection is tried.
NewServer ==
    [ _state       |-> state_ok,
      _messages    |-> [ok |-> <<>>, warning |-> <<>>, critical |-> <<>>],
      _perf_data   |-> <<>>,
      _mysql       |-> <<>>,
      _connection  |-> "None",
      _is_slave    |-> FALSE,
      _master      |-> "None",
      exc          |-> "",
      stdout       |-> <<>>,     \* the lines printed
      reports      |-> <<>>,     \* the lines of each _print_status call
      set_calls    |-> <<>>,     \* every state passed to _set_state, in order
      executed     |-> 0,        \* statements sent to the primary connection
      lag_mode     |-> "none",   \* the algorithm _get_replication_lag chose
      opened       |-> {},       \* connections opened
      closed       |-> <<>> ]    \* connections closed, one entry per close()

\* _set_state with the comparison dropped: the last state recorded wins.
_set_state_overwrite(self, state) ==
    [self EXCEPT !._state = state, !.set_calls = Append(@, state)]

_set_state(self, state) ==
    [self EXCEPT !._state = IF state >= @ THEN state ELSE @,
                 !.set_calls = Append(@, state)]

\* self._messages[level].append(msg)
append_message_front(self, level, msg) ==
    [self EXCEPT !._messages[level] = <<msg>> \o @]

append_message(self, level, msg) ==
    [self EXCEPT !._messages[level] = Append(@, msg)]

\* self._perf_data.append(perf_data)
append_perf(self, perf_data) ==
    [self EXCEPT !._perf_data = Append(@, perf_data)]

\* raise: the exception leaves the method that is running
raise(self, e) == [self EXCEPT !.exc = e]

\* _run_query: one statement on the primary connection; a failure is the
\* driver's exception, which _run_query does not catch.
_run_query(self, fails) ==
    IF fails THEN raise([self EXCEPT !.executed = @ + 1], "OperationalError")
    ELSE [self EXCEPT !.executed = @ + 1]

\* __exit__: closes the primary connection if there is one.
__exit__(self) ==
    IF self._connection # "None"
    THEN [self EXCEPT !._connection = "closed", !.closed = Append(@, "primary")]
    ELSE self

----------------------------------------------------------------------------
(* Formatting *)

\* level.capitalize()
capitalize(level) ==
    CASE level = "ok" -> "Ok"
      [] level = "warning" -> "Warning"
      [] level = "critical" -> "Critical"

(* The usage of the two usage checks is computed in doubles:
   round((float(a) / float(b)) * 100.0, 2).  A double is held as [m, p]:
   m its mantissa of 53 bits, the highest of them 1, and p the power of two
   of the lowest bit, so that the value is m * 2^p.  A mantissa, and any
   number too wide for an integer of the model, is a sequence of limbs of 13
   bits, the lowest first; a mantissa fills four limbs and the lowest bit of
   the fifth.  The counts are below 2^30 and the usage in hundredths below
   2^31, which keeps every step inside the integers of the model. *)

\* The bits of a limb, the number of values of a limb, and the limb that
\* holds the highest bit of a mantissa
LimbBits == 13

Limb == 8192

TopLimb == 5

RECURSIVE Pow2(_)
Pow2(n) == IF n = 0 THEN 1 ELSE 2 * Pow2(n - 1)

\* The number of bits of x without leading zeros
RECURSIVE BitLength(_)
BitLength(x) == IF x = 0 THEN 0 ELSE 1 + BitLength(x \div 2)

\* The limbs from the i-th on with the carry c added at the i-th, every limb
\* brought below Limb
RECURSIVE Carry(_, _, _)
Carry(limbs, i, c) ==
    IF i > Len(limbs) THEN IF c = 0 THEN <<>> ELSE <<c>>
    ELSE <<(limbs[i] + c) % Limb>> \o Carry(limbs, i + 1, (limbs[i] + c) \div Limb)

\* The number times k, k a small number
TimesSmall(limbs, k) == Carry([i \in 1..Len(limbs) |-> limbs[i] * k], 1, 0)

\* The number without its s lowest bits (s < LimbBits)
ShiftRight(limbs, s) ==
    [i \in 1..Len(limbs) |->
        (limbs[i] \div Pow2(s))
        + (IF i < Len(limbs)
           THEN (limbs[i + 1] % Pow2(s)) * Pow2(LimbBits - s) ELSE 0)]

\* The number without its q lowest bits, as an integer
RECURSIVE ValueFrom(_, _)
ValueFrom(limbs, i) ==
    IF i > Len(limbs) THEN 0 ELSE limbs[i] + Limb * ValueFrom(limbs, i + 1)

ShiftedValue(limbs, q) ==
    ValueFrom(ShiftRight(limbs, q % LimbBits), q \div LimbBits + 1)

\* The bit of the number that counts 2^j
Bit(limbs, j) ==
    IF j < 0 \/ j \div LimbBits + 1 > Len(limbs) THEN 0
    ELSE (limbs[j \div LimbBits + 1] \div Pow2(j % LimbBits)) % 2

\* The first n bits of rem/d after the point (0 <= rem < d) as a number, and
\* what remains
RECURSIVE QuotientBits(_, _, _)
QuotientBits(rem, d, n) ==
    IF n = 0 THEN [q |-> 0, rem |-> rem]
    ELSE LET bit  == IF 2 * rem >= d THEN 1 ELSE 0
             rest == QuotientBits(2 * rem - bit * d, d, n - 1)
         IN  [q |-> bit * Pow2(n - 1) + rest.q, rem |-> rest.rem]

\* The first n limbs of rem/d after the point (0 <= rem < d), and what remains
RECURSIVE QuotientLimbs(_, _, _)
QuotientLimbs(rem, d, n) ==
    IF n = 0 THEN [limbs |-> <<>>, rem |-> rem]
    ELSE LET limb == QuotientBits(rem, d, LimbBits)
             rest == QuotientLimbs(limb.rem, d, n - 1)
         IN  [limbs |-> rest.limbs \o <<limb.q>>, rem |-> rest.rem]

\* n/d as (n'/d') * 2^e with 1 <= n'/d' < 2
RECURSIVE Normalise(_, _, _)
Normalise(n, d, e) ==
    IF n >= 2 * d THEN Normalise(n, 2 * d, e + 1)
    ELSE IF n < d THEN Normalise(2 * n, d, e - 1)
    ELSE [n |-> n, d |-> d, e |-> e]

\* The double nearest to limbs * 2^p (plus a little, when more is set), a tie
\* going to the even mantissa: the rounding of every operation on doubles.
\* The number has TopLimb limbs, the highest not zero.
RoundToDouble(limbs, more, p) ==
    LET s       == BitLength(limbs[TopLimb]) - 1
        kept    == ShiftRight(limbs, s)
        dropped == limbs[1] % Pow2(s)
        guard   == s > 0 /\ dropped >= Pow2(s - 1)
        sticky  == more \/ (s > 0 /\ dropped % Pow2(s - 1) # 0)
        up      == guard /\ (sticky \/ kept[1] % 2 = 1)
        r       == IF up THEN Carry(kept, 1, 1) ELSE kept
    IN  IF r[TopLimb] > 1
        THEN [m |-> ShiftRight(r, 1), p |-> p + s + 1]
        ELSE [m |-> r, p |-> p + s]

\* float(a) / float(b) for counts a > 0 and b > 0: the quotient to 54 bits,
\* the last of them the one the rounding looks at
float_div(a, b) ==
    LET f     == Normalise(a, b, 0)
        first == QuotientBits(f.n - f.d, f.d, 1)
        q     == QuotientLimbs(first.rem, f.d, TopLimb - 1)
    IN  RoundToDouble(q.limbs \o <<2 + first.q>>, q.rem # 0,
                      f.e - LimbBits * (TopLimb - 1) - 1)

\* x * 100.0
float_times_100(x) == RoundToDouble(TimesSmall(x.m, 100), FALSE, x.p)

\* round(x, 2) of a double 0 < x < 2^31 / 100, in hundredths: Python 2 rounds
\* the value the double holds to the nearest hundredth, a tie going away from
\* zero.
round_2(x) ==
    LET z == TimesSmall(x.m, 100)
    IN  ShiftedValue(z, -x.p) + Bit(z, -x.p - 1)

\* round((float(a) / float(b)) * 100.0, 2), in hundredths (a >= 0, b > 0)
round_usage(a, b) ==
    IF a = 0 THEN 0 ELSE round_2(float_times_100(float_div(a, b)))

\* The quotient n/d rounded to an integer, a tie going to the even neighbour,
\* as "%.1f" does with a value a double holds exactly (n >= 0, d > 0).
RoundHalfEven(n, d) ==
    LET q == n \div d
        r == n % d
    IN  IF 2 * r > d THEN q + 1
        ELSE IF 2 * r < d THEN q
        ELSE IF q % 2 = 0 THEN q ELSE q + 1

\* int(log(max(n, 1), 1024)): the largest p with 1024^p <= max(n, 1).  The
\* integers of the model are below 2^31, so p stays below 4 and the cap
\* len(pre) - 1 = 8 of the code is never reached.
Pow1024(n) ==
    IF n >= 1024 * 1024 * 1024 THEN 3
    ELSE IF n >= 1024 * 1024 THEN 2
    ELSE IF n >= 1024 THEN 1
    ELSE 0

\* pre[pow]
SizePrefix(pow) ==
    CASE pow = 0 -> "" [] pow = 1 -> "Ki" [] pow = 2 -> "Mi" [] pow = 3 -> "Gi"

\* pretty_size(n): "%.0f %s%s" of n for pow = 0, and "%.1f %s%s" of
\* n/1024^pow otherwise; the number is held
\* in tenths when it is printed with one decimal.
pretty_size(n) ==
    LET pow == Pow1024(n)
        b   == CASE pow = 0 -> 1 [] pow = 1 -> 1024 [] pow = 2 -> 1024 * 1024
                 [] pow = 3 -> 1024 * 1024 * 1024
    IN  IF pow = 0
        THEN <<"%.0f %s%s", n, SizePrefix(pow), "B">>
        ELSE <<"%.1f %s%s", RoundHalfEven(n * 10, b), SizePrefix(pow), "B">>

\* pretty_time(seconds)
pretty_time(seconds) ==
    LET sign_string == IF seconds < 0 THEN "-" ELSE ""
        abs     == IF seconds < 0 THEN 0 - seconds ELSE seconds
        days    == abs \div 86400
        r1      == abs % 86400
        hours   == r1 \div 3600
        r2      == r1 % 3600
        minutes == r2 \div 60
        secs    == r2 % 60
    IN  IF days > 0 THEN <<"%s%dd%dh%dm%ds", sign_string, days, hours, minutes, secs>>
        ELSE IF hours > 0 THEN <<"%s%dh%dm%ds", sign_string, hours, minutes, secs>>
        ELSE IF minutes > 0 THEN <<"%s%dm%ds", sign_string, minutes, secs>>
        ELSE <<"%s%ds", sign_string, secs>>

\* float(x) of a count: a float is held in hundredths.
float(x) == x * 100

\* Python 2's value >= threshold for a float (in hundredths) and a threshold
\* that is an int or a str: a number orders before every str, so the
\* comparison with a str is False.
float_ge(value100, threshold) ==
    IF threshold.type = "str" THEN FALSE ELSE value100 >= threshold.v * 100

----------------------------------------------------------------------------
(* The checks on the snapshot *)

\* check_threads_usage(warning, critical)
check_threads_usage(self, warning, critical) ==
    LET threads_running == float(self._mysql.status.Threads_running)
        concurrency     == self._mysql.variables.innodb_thread_concurrency
    IN  IF concurrency = None THEN raise(self, "TypeError")
        ELSE
        LET thread_concurrency == float(concurrency[1])
            unlimited   == 0
            \* round((threads_running / thread_concurrency) * 100.0, 2), in hundredths
            thread_usage == round_usage(self._mysql.status.Threads_running, concurrency[1])
            perf_data   == <<"thread_usage={}%;{};{}", thread_usage, warning, critical>>
            msg         == <<"Thread usage {}% Threads running {} Thread concurrency {} ",
                             thread_usage, threads_running, thread_concurrency>>
            p           == append_perf(self, perf_data)
        IN  IF thread_concurrency = unlimited THEN self
            ELSE IF thread_usage >= critical * 100
                 THEN _set_state(append_message(p, "critical", msg), state_critical)
            ELSE IF thread_usage >= warning * 100
                 THEN _set_state(append_message(p, "warning", msg), state_warning)
            ELSE append_message(p, "ok", msg)

\* check_connections(warning, critical); critical is an int by default and a
\* str when given on the command line (its option has no type=int).
check_connections(self, warning, critical) ==
    LET threads_connected == float(self._mysql.status.Threads_connected)
        max_connections   == float(self._mysql.variables.max_connections)
    IN  IF max_connections = 0 THEN raise(self, "ZeroDivisionError")
        ELSE
        LET connection_usage == round_usage(self._mysql.status.Threads_connected,
                                            self._mysql.variables.max_connections)
            perf_data == <<"connection_usage={}%;{};{}", connection_usage, warning, critical.v>>
            msg       == <<"Connections used {}% Threads connected {} Max connections {}",
                           connection_usage, threads_connected, max_connections>>
            p         == append_perf(self, perf_data)
        IN  IF float_ge(connection_usage, critical)
            THEN _set_state(append_message(p, "critical", msg), state_critical)
            ELSE IF connection_usage >= warning * 100
            THEN _set_state(append_message(p, "warning", msg), state_warning)
            ELSE append_message(p, "ok", msg)

----------------------------------------------------------------------------
(* The checks that query *)

\* check_slave_connections, line 481
slave_connections_disabled(warning, critical) == warning = -1 \/ critical = -1

\* check_slave_connections(warning, critical); db.slaves is the number of rows
\* of SHOW SLAVE HOSTS, db.fails whether the statement fails.
check_slave_connections(self, warning, critical, db) ==
    IF slave_connections_disabled(warning, critical) THEN self
    ELSE
    LET q == _run_query(self, db.fails) IN
    IF q.exc # "" THEN q
    ELSE
    LET slaves == db.slaves
        p   == append_perf(q, <<"slaves_connected={};{};{}", slaves, warning, critical>>)
        msg == <<"Slave connected {}", slaves>>
    IN  IF slaves <= critical
        THEN _set_state(append_message(p, "critical", msg), state_critical)
        ELSE IF slaves <= warning
        THEN _set_state(append_message(p, "warning", msg), state_warning)
        ELSE append_message(p, "ok", msg)

\* The severity of check_user_connections with the claim's reading: a count
\* at or below the critical bound is at least a warning.
user_connections_level_breach(count, alert_level, warning, critical) ==
    IF count <= critical /\ alert_level = "critical" THEN "critical"
    ELSE IF count <= warning \/ count <= critical THEN "warning"
    ELSE "ok"

\* check_user_connections, lines 540-549: the bucket the message goes to
user_connections_level(count, alert_level, warning, critical) ==
    IF count <= critical /\ alert_level = "critical" THEN "critical"
    ELSE IF count <= warning THEN "warning"
    ELSE "ok"

\* check_user_connections(username, alert_level, warning, critical); db.count
\* is the count the query returns, db.fails whether the statement fails.
check_user_connections(self, username, alert_level, warning, critical, db) ==
    LET q == _run_query(self, db.fails) IN
    IF q.exc # "" THEN q
    ELSE
    LET p   == append_perf(q, <<"user_connected={};{};{}", db.count, warning, critical>>)
        msg == <<"User {} has {} connections (w:{} c:{})",
                 username, db.count, warning, critical>>
        level == user_connections_level(db.count, alert_level, warning, critical)
    IN  IF level = "critical"
        THEN _set_state(append_message(p, "critical", msg), state_critical)
        ELSE IF level = "warning"
        THEN _set_state(append_message(p, "warning", msg), state_warning)
        ELSE append_message(p, "ok", msg)

----------------------------------------------------------------------------
(* Replication *)

\* _connect_master: MySQLServer(master_connection) inside try/except Exception.
\* db.master is what building the second object does: "ok", "connect_failed"
\* (MySQLdb.connect raises) or "init_failed" (the connection opens and one of
\* the three statements of __init__ raises).  self._master is assigned only
\* when the constructor returns.
_connect_master(self, db) ==
    IF db.master = "ok"
    THEN [self EXCEPT !._master = "open", !.opened = @ \cup {"master"}]
    ELSE IF db.master = "init_failed"
    THEN [self EXCEPT !.opened = @ \cup {"master"}]
    ELSE self

\* int(name.split('.')[1]) of a log file name.  A name 'base.000009' is
\* <<base, 9>>; the empty name '' is <<>>, and ''.split('.') has no element 1.
logfile_nr(name) ==
    IF Len(name) < 2 THEN [v |-> 0, exc |-> "IndexError"]
    ELSE [v |-> name[2], exc |-> ""]

\* The loop of lines 338-344 counting the files after the matched one only
RECURSIVE master_log_ahead_after(_, _, _)
master_log_ahead_after(logs, slave_relay_master_log_file, slave_logfile_matched) ==
    IF logs = <<>> THEN 0
    ELSE LET log == Head(logs)
         IN  (IF slave_logfile_matched THEN log.File_size ELSE 0)
             + master_log_ahead_after(Tail(logs), slave_relay_master_log_file,
                   log.Log_name = slave_relay_master_log_file \/ slave_logfile_matched)

\* The loop of lines 338-344: the sizes from the matched file on.
RECURSIVE master_log_ahead(_, _, _)
master_log_ahead(logs, slave_relay_master_log_file, slave_logfile_matched) ==
    IF logs = <<>> THEN 0
    ELSE LET log == Head(logs)
             matched == log.Log_name = slave_relay_master_log_file
                        \/ slave_logfile_matched
         IN  (IF matched THEN log.File_size ELSE 0)
             + master_log_ahead(Tail(logs), slave_relay_master_log_file, matched)

\* _diff_binlog_master_slave(slave_status_only): the value returned, or the
\* exception that left it.  db.master_logs is the answer of the source to
\* SHOW MASTER LOGS and db.logs_fail whether that statement fails.
_diff_binlog_master_slave(self, slave_status_only, db) ==
    LET slave == self._mysql.slave[1]
        slave_relay_master_log_file == slave.Relay_Master_Log_File
        slave_master_log_file       == slave.Master_Log_File
        slave_exec_master_log_pos   == slave.Exec_Master_Log_Pos
    IN  IF ~slave_status_only
        THEN IF db.logs_fail
             THEN [lag_bytes |-> 0, exc |-> "OperationalError"]
             ELSE [lag_bytes |-> master_log_ahead(db.master_logs,
                                                 slave_relay_master_log_file, FALSE)
                                 - slave_exec_master_log_pos,
                   exc |-> ""]
        ELSE
        LET max_binlog_size   == self._mysql.variables.max_binlog_size
            master_logfile_nr == logfile_nr(slave_master_log_file)
            slave_logfile_nr  == logfile_nr(slave_relay_master_log_file)
            logfile_nr_offset == master_logfile_nr.v - slave_logfile_nr.v
        IN  IF master_logfile_nr.exc # ""
            THEN [lag_bytes |-> 0, exc |-> master_logfile_nr.exc]
            ELSE IF slave_logfile_nr.exc # ""
            THEN [lag_bytes |-> 0, exc |-> slave_logfile_nr.exc]
            ELSE IF logfile_nr_offset > 0
            THEN IF max_binlog_size.type = "str"
                 \* int * str repeats the str, and str - int raises
                 THEN [lag_bytes |-> 0, exc |-> "TypeError"]
                 ELSE [lag_bytes |-> logfile_nr_offset * max_binlog_size.v
                                     - slave_exec_master_log_pos,
                       exc |-> ""]
            ELSE [lag_bytes |-> 0, exc |-> ""]

\* _get_replication_lag: the object afterwards and the value returned
_get_replication_lag(self, db) ==
    LET c == _connect_master(self, db)
        slave_status_only == c._master = "None"
        d == _diff_binlog_master_slave(c, slave_status_only, db)
        m == [c EXCEPT !.lag_mode = IF slave_status_only THEN "fallback" ELSE "primary"]
    IN  [self |-> IF d.exc # "" THEN raise(m, d.exc) ELSE m, lag_bytes |-> d.lag_bytes]

\* check_replication, lines 420-432: the two thread flags
replication_threads(self, slave) ==
    LET sql_down == slave.Slave_SQL_Running # "Yes"
        io_down  == slave.Slave_IO_Running # "Yes"
        a == IF sql_down
             THEN _set_state(append_message(self, "critical",
                                 <<"Replication SQL Thread is down">>), state_critical)
             ELSE self
        b == IF sql_down /\ slave.Last_Errno # 0
             THEN append_message(a, "critical", <<"Last Error: {}", slave.Last_Errno>>)
             ELSE a
    IN  IF io_down
        THEN _set_state(append_message(b, "critical",
                            <<"Replication IO Thread is down">>), state_critical)
        ELSE b

\* Lines 434-437 without the append: the state is raised and no message is
\* recorded.
replication_read_only_silent(self, ignore_readonly_warning) ==
    IF ~ignore_readonly_warning /\ self._mysql.variables.read_only # "ON"
    THEN _set_state(self, state_warning)
    ELSE self

\* check_replication, lines 434-437: the read-only warning
replication_read_only(self, ignore_readonly_warning) ==
    IF ~ignore_readonly_warning /\ self._mysql.variables.read_only # "ON"
    THEN _set_state(append_message(self, "warning",
                        <<"Slave is not operating in read only mode">>), state_warning)
    ELSE self

\* check_replication, lines 448-468: the summary line and the two lags
replication_lag_levels(self, msg, lag_seconds, lag_bytes, threshold_seconds_warning, threshold_seconds_critical, threshold_bytes_warning, threshold_bytes_critical) ==
    LET b == IF lag_bytes >= threshold_bytes_critical
             THEN _set_state(append_message(self, "critical", msg), state_critical)
             ELSE IF lag_bytes >= threshold_bytes_warning
             THEN _set_state(append_message(self, "warning", msg), state_warning)
             ELSE self
    IN  IF lag_seconds >= threshold_seconds_critical
        THEN _set_state(append_message(b, "critical", msg), state_critical)
        ELSE IF lag_seconds >= threshold_seconds_warning
        THEN _set_state(append_message(b, "warning", msg), state_warning)
        ELSE append_message(b, "ok", msg)

\* check_replication(threshold_seconds_warning, threshold_seconds_critical,
\*                   threshold_bytes_warning, threshold_bytes_critical,
\*                   ignore_readonly_warning)
check_replication(self, threshold_seconds_warning, threshold_seconds_critical, threshold_bytes_warning, threshold_bytes_critical, ignore_readonly_warning, db) ==
    IF ~self._is_slave THEN self
    ELSE
    LET slave == self._mysql.slave[1]
        g     == _get_replication_lag(self, db)
    IN  IF g.self.exc # "" THEN g.self
        ELSE
        LET lag_bytes   == g.lag_bytes
            p1 == append_perf(g.self, <<"replication_lag_bytes={}b;{};{}", lag_bytes,
                                        threshold_bytes_warning, threshold_bytes_critical>>)
            lag_seconds == IF slave.Seconds_Behind_Master = None THEN -1
                           ELSE slave.Seconds_Behind_Master[1]
            p2 == append_perf(p1, <<"replication_lag_seconds={}s;{};{}", lag_seconds,
                                    threshold_seconds_warning, threshold_seconds_critical>>)
            t  == replication_threads(p2, slave)
            r  == replication_read_only(t, ignore_readonly_warning)
            msg == <<"Replication Master {}:{} Slave lag {}/{}",
                     slave.Master_Host, slave.Master_Port,
                     pretty_time(lag_seconds), pretty_size(lag_bytes)>>
        IN  replication_lag_levels(r, msg, lag_seconds, lag_bytes,
                                   threshold_seconds_warning, threshold_seconds_critical,
                                   threshold_bytes_warning, threshold_bytes_critical)

----------------------------------------------------------------------------
(* Schema-lock audit, heartbeat, definer audit *)

\* check_liquibase, lines 615-632: one lock row against the two bounds; both
\* comparisons are made ("if", "if").
liquibase_lock(self, lock, warning, critical) ==
    LET msg == <<"Liquibase lock held by {} in {} for {} seconds",
                 lock.LOCKEDBY, lock.DATABASE, lock.SECONDS>>
        c == IF lock.SECONDS >= critical
             THEN _set_state(append_message(self, "critical", msg), state_critical)
             ELSE self
    IN  IF lock.SECONDS >= warning
        THEN _set_state(append_message(c, "warning", msg), state_warning)
        ELSE c

\* The loop of lines 615-632
RECURSIVE liquibase_locks(_, _, _, _)
liquibase_locks(self, locks, warning, critical) ==
    IF locks = <<>> THEN self
    ELSE liquibase_locks(liquibase_lock(self, Head(locks), warning, critical),
                         Tail(locks), warning, critical)

\* The loop of lines 593-607: the held lock of each lock table found.  A row
\* of db.lock_tables is [TABLE_SCHEMA, result], result being None or the row
\* [LOCKEDBY, SECONDS] of the table's lock.
RECURSIVE liquibase_collect(_)
liquibase_collect(lock_tables) ==
    IF lock_tables = <<>> THEN <<>>
    ELSE LET lock == Head(lock_tables)
             rest == liquibase_collect(Tail(lock_tables))
         IN  IF lock.result = None THEN rest
             ELSE <<[LOCKEDBY |-> lock.result[1].LOCKEDBY,
                     SECONDS  |-> lock.result[1].SECONDS,
                     DATABASE |-> lock.TABLE_SCHEMA]>> \o rest

\* check_liquibase(database, table, warning, critical); db.fails is whether
\* the first statement fails.
check_liquibase(self, database, table, warning, critical, db) ==
    LET q == _run_query(self, db.fails) IN
    IF q.exc # "" THEN q
    ELSE
    LET lock_tables == db.lock_tables
        e  == [q EXCEPT !.executed = @ + Len(lock_tables)]
        locks == liquibase_collect(lock_tables)
        n  == IF lock_tables = <<>>
              THEN _set_state(append_message(e, "warning",
                       <<"Liquibase lock table {} not found", table>>), state_warning)
              ELSE e
        l  == liquibase_locks(n, locks, warning, critical)
    IN  IF l._state = state_ok
        THEN append_message(l, "ok", <<"Liquibase locks">>)
        ELSE l

\* The statements check_heartbeat has sent when it leaves its try block:
\* the DELETE alone when the DELETE raises, the DELETE and the INSERT when
\* the INSERT or the commit raises, and both when nothing raises.
heartbeat_statements(db) ==
    IF db.write # "ok" /\ db.at = "delete" THEN 1 ELSE 2

\* check_heartbeat(table, column); db.write is "ok", "error" (the driver's
\* exception, with a code and a text) or "error_noargs" (an exception with
\* fewer than two arguments, for which e[1] raises inside the handler), and
\* db.at is the call that raises: "delete", "insert" or "commit".
check_heartbeat(self, table, column, db) ==
    IF self._mysql.variables.read_only # "ON"
    THEN LET msg == <<"Heartbeat">>
             failed == <<"{} failed to update unix timestamp ({})", msg, db.error_text>>
             x == [self EXCEPT !.executed = @ + heartbeat_statements(db)]
         IN  IF db.write = "ok"
             THEN _set_state(append_message(x, "ok", msg), state_ok)
             ELSE IF db.write = "error"
             THEN LET c == _set_state(append_message(x, "critical", failed), state_critical)
                  IN  _set_state(append_message(c, "ok", failed), state_ok)
             ELSE raise(x, "IndexError")
    ELSE self

\* check_definer, lines 701-706: the definers of a target that match no
\* account, in row order.  users is the set of <<User, Host>> of mysql.user.
definer_broken(users, rows) ==
    LET is_broken(row) == row \notin users
    IN  SelectSeq(rows, is_broken)

\* The loop of lines 699-706: broken has one entry for each target name, and
\* every occurrence of a target adds the broken definers of its rows to that
\* entry, so a target named twice holds each of them twice.
RECURSIVE definer_collect(_, _, _)
definer_collect(broken, targets, db) ==
    IF targets = <<>> THEN broken
    ELSE LET target == Head(targets)
             found  == definer_broken(db.users, db.definers[target])
         IN  definer_collect([broken EXCEPT ![target] = @ \o found],
                             Tail(targets), db)

\* The loop of lines 711-716, a message for every occurrence of a target
\* whose entry is not empty
RECURSIVE definer_report(_, _, _)
definer_report(self, targets, broken) ==
    IF targets = <<>> THEN self
    ELSE LET target == Head(targets)
             s == IF Len(broken[target]) > 0
                  THEN _set_state(append_message(self, "warning",
                           <<"Definer [{}] in {} is broken", broken[target], target>>),
                           state_warning)
                  ELSE self
         IN  definer_report(s, Tail(targets), broken)

\* check_definer(targets); db.fails is whether the first statement fails.
check_definer(self, targets, db) ==
    LET q == _run_query(self, db.fails) IN
    IF q.exc # "" THEN q
    ELSE
    LET names  == {targets[i] : i \in 1..Len(targets)}
        broken == definer_collect([x \in names |-> <<>>], targets, db)
        e == [q EXCEPT !.executed = @ + Len(targets)]
        o == append_message(e, "ok", <<"Definer for {}", targets>>)
    IN  definer_report(o, targets, broken)

----------------------------------------------------------------------------
(* The report *)

\* _print_status(level): the lines go to stdout, and the report is kept
_print_status(self, level) ==
    LET cap == capitalize(level) IN
    IF level # "ok" /\ self._messages[level] = <<>>
    THEN raise(self, "IndexError")     \* pop(0) of an empty list
    ELSE
    LET first == IF level = "ok" THEN <<"Ok Database Health">>
                 ELSE <<"{} Database Health - {}", cap, Head(self._messages[level])>>
        popped == IF level = "ok" THEN self
                  ELSE [self EXCEPT !._messages[level] = Tail(@)]
        bucket == popped._messages[level]
        rest  == [i \in 1..Len(bucket) |-> <<"{} - {}", cap, bucket[i]>>]
        lines == <<first>> \o rest \o << <<"|{}", self._perf_data>> >>
    IN  [popped EXCEPT !.stdout = @ \o lines, !.reports = Append(@, lines)]

\* status, lines 781-788: the level of the report
status_level(self) ==
    IF self._state = state_critical THEN "critical"
    ELSE IF self._state = state_warning THEN "warning"
    ELSE "ok"

\* status without its return statement: sys.exit(None) exits with 0.
status_result_none(self) == 0

\* status, line 790: return self._state
status_result(self) == self._state

----------------------------------------------------------------------------
(* What the database holds and what the command line asks: the inputs *)

\* The checks, in the order status calls them (lines 729-779)
StatusOrder ==
    << "check_heartbeat", "check_replication", "check_threads_usage",
       "check_user_connections", "check_connections", "check_slave_connections",
       "check_liquibase", "check_definer" >>

Checks == {StatusOrder[i] : i \in 1..Len(StatusOrder)}

OrderOf(check) == CHOOSE i \in 1..Len(StatusOrder) : StatusOrder[i] = check

\* self._mysql as __init__ fills it (lines 85-87)
Snapshot(running, concurrency, connected, max_connections, read_only, max_binlog_size, slave) ==
    [ status    |-> [Threads_running |-> running, Threads_connected |-> connected],
      variables |-> [innodb_thread_concurrency |-> concurrency,
                     max_connections |-> max_connections,
                     read_only       |-> read_only,
                     max_binlog_size |-> max_binlog_size],
      slave     |-> slave ]

\* A row of SHOW SLAVE STATUS, with the fields the program reads
SlaveRow(seconds, sql, io, errno, relay_master_log_file, master_log_file, pos) ==
    [ Seconds_Behind_Master |-> seconds,
      Slave_SQL_Running     |-> sql,
      Slave_IO_Running      |-> io,
      Last_Errno            |-> errno,
      Master_Host           |-> "source",
      Master_Port           |-> 3306,
      Relay_Master_Log_File |-> relay_master_log_file,
      Master_Log_File       |-> master_log_file,
      Exec_Master_Log_Pos   |-> pos ]

\* The log file name 'mysql-bin.<n>'
BinLog(n) == <<"mysql-bin", n>>

MasterLog(n, size) == [Log_name |-> BinLog(n), File_size |-> size]

HealthyReplica == SlaveRow(Some(0), "Yes", "Yes", 0, BinLog(1), BinLog(1), 1)
BrokenReplica == SlaveRow(None, "No", "Connecting", 1062, BinLog(1), BinLog(2), 1)

\* The error codes MySQLdb.connect fails with in the model: the four that
\* main names, and two it does not (2003 can't connect, 1049 unknown database)
ConnectErrorCodes ==
    { MYSQL_ACCESS_DENIED, MYSQL_HOST_NOT_ALLOWED, MYSQL_REPLICATION_SLAVE_PRIV,
      MYSQL_UNKOWN_HOST, 2003, 1049 }

Counts == 0..MaxCount
Thresholds == -1..MaxThreshold
Percents == {-1, 50, 60, 95, 100}

LockRow(seconds) == [LOCKEDBY |-> "deployer", SECONDS |-> seconds]
LockTable(result) == [TABLE_SCHEMA |-> "app", result |-> result]
LockTableRows == {LockTable(None)} \cup {LockTable(Some(LockRow(n))) : n \in 1..3}

Root == <<"root", "%">>
Bob == <<"bob", "%">>

\* What the server does with the statements of check_heartbeat: whether one of
\* them raises, and which
HeartbeatDb(write, at) ==
    [write |-> write, at |-> at, error_text |-> "Table doesn't exist"]

(* The runs with every check: a few servers and a few command lines. *)

NarrowSnapshots ==
    { Snapshot(r, Some(2), 1, 2, ro, Str_(2), sl) :
        r \in {1, 2}, ro \in {"ON", "OFF"},
        sl \in {None, Some(HealthyReplica), Some(BrokenReplica)} }

NarrowArgs(check) ==
    CASE check = "check_heartbeat" ->
           { [table |-> "heartbeat.heartbeat", column |-> "tz", db |-> d] :
             d \in { HeartbeatDb("ok", "none"), HeartbeatDb("error", "delete"),
                     HeartbeatDb("error", "commit") } }
      [] check = "check_replication" ->
           { [threshold_seconds_warning |-> 1, threshold_seconds_critical |-> 2,
              threshold_bytes_warning |-> 2, threshold_bytes_critical |-> 4,
              ignore_readonly_warning |-> FALSE,
              db |-> [master |-> m, logs_fail |-> FALSE,
                      master_logs |-> <<MasterLog(1, 1), MasterLog(2, 2)>>]] :
             m \in {"ok", "connect_failed"} }
      [] check = "check_threads_usage" ->
           { [warning |-> w, critical |-> 95] : w \in {40, 60} }
      [] check = "check_user_connections" ->
           { [username |-> "root", alert_level |-> a, warning |-> 1, critical |-> 0,
              db |-> [count |-> n, fails |-> FALSE]] :
             a \in {"warning", "critical"}, n \in {0, 2} }
           \cup { [username |-> "root", alert_level |-> "warning", warning |-> 1,
                   critical |-> 0, db |-> [count |-> 0, fails |-> TRUE]] }
      [] check = "check_connections" ->
           { [warning |-> 85, critical |-> Int_(95)],
             [warning |-> 40, critical |-> Str_(50)] }
      [] check = "check_slave_connections" ->
           { [warning |-> -1, critical |-> 0, db |-> [slaves |-> 0, fails |-> FALSE]] }
           \cup { [warning |-> 1, critical |-> 0, db |-> [slaves |-> n, fails |-> FALSE]] :
                  n \in {0, 2} }
      [] check = "check_liquibase" ->
           { [database |-> "", table |-> "DATABASECHANGELOGLOCK",
              warning |-> 1, critical |-> 2,
              db |-> [fails |-> FALSE, lock_tables |-> t]] :
             t \in { <<>>, <<LockTable(None)>>, <<LockTable(Some(LockRow(2)))>> } }
      [] check = "check_definer" ->
           { [targets |-> t,
              db |-> [fails |-> FALSE, users |-> {Root}, definers |-> [views |-> d]]] :
             t \in { <<"views">>, <<"views", "views">> }, d \in { <<Root>>, <<Bob>> } }

(* The runs with one check: every value within the bounds. *)

DefaultSnapshot == Snapshot(1, Some(2), 1, 2, "OFF", Str_(2), None)

WideSlaveRows ==
    { SlaveRow(sec, sql, io, errno, BinLog(1), mf, 1) :
        sec \in {None, Some(0), Some(MaxCount)},
        sql \in {"Yes", "No"}, io \in {"Yes", "No"}, errno \in {0, 1062},
        mf \in {BinLog(1), BinLog(2), <<>>} }

\* Replicas with both threads running, at several places of the source's log
LagSlaveRows ==
    { SlaveRow(Some(0), "Yes", "Yes", 0, BinLog(r), BinLog(m), pos) :
        r \in {1, 2}, m \in {1, 2, 3}, pos \in {0, 1, 2} }

WideSnapshots(check) ==
    CASE check = "check_threads_usage" ->
           { [DefaultSnapshot EXCEPT !.status.Threads_running = r,
                                     !.variables.innodb_thread_concurrency = c] :
             r \in Counts, c \in {None} \cup {Some(n) : n \in Counts} }
      [] check = "check_connections" ->
           { [DefaultSnapshot EXCEPT !.status.Threads_connected = r,
                                     !.variables.max_connections = m] :
             r \in Counts, m \in Counts }
      [] check = "check_heartbeat" ->
           { [DefaultSnapshot EXCEPT !.variables.read_only = ro] : ro \in {"ON", "OFF"} }
      [] check = "check_replication" ->
           { [DefaultSnapshot EXCEPT !.variables.read_only = ro,
                                     !.variables.max_binlog_size = mbs,
                                     !.slave = sl] :
             ro \in {"ON", "OFF"}, mbs \in {Str_(2), Int_(2)},
             sl \in {None} \cup {Some(row) : row \in WideSlaveRows} }
           \cup
           { [DefaultSnapshot EXCEPT !.variables.read_only = "ON",
                                     !.variables.max_binlog_size = mbs,
                                     !.slave = Some(row)] :
             mbs \in {Int_(2), Int_(4), Str_(4)}, row \in LagSlaveRows }
      [] OTHER -> {DefaultSnapshot}

WideReplicationDb ==
    { [master |-> m, logs_fail |-> FALSE, master_logs |-> <<>>] :
        m \in {"connect_failed", "init_failed"} }
    \cup { [master |-> "ok", logs_fail |-> f, master_logs |-> l] :
           f \in BOOLEAN,
           l \in { <<MasterLog(1, 1)>>, <<MasterLog(1, 1), MasterLog(2, 2)>> } }
    \cup { [master |-> "ok", logs_fail |-> FALSE, master_logs |-> l] :
           l \in { <<MasterLog(1, 1), MasterLog(2, 1), MasterLog(3, 1)>>,
                   <<MasterLog(0, 2), MasterLog(1, 2), MasterLog(2, 2)>>,
                   <<MasterLog(2, 2), MasterLog(3, 2)>> } }

WideArgs(check) ==
    CASE check = "check_heartbeat" ->
           { [table |-> "heartbeat.heartbeat", column |-> "tz", db |-> d] :
             d \in { HeartbeatDb("ok", "none") }
                   \cup { HeartbeatDb(w, at) :
                           w \in {"error", "error_noargs"},
                           at \in {"delete", "insert", "commit"} } }
      [] check = "check_replication" ->
           { [threshold_seconds_warning |-> sw, threshold_seconds_critical |-> sc,
              threshold_bytes_warning |-> bw, threshold_bytes_critical |-> bc,
              ignore_readonly_warning |-> ig, db |-> d] :
             sw \in {-1, 1}, sc \in {-1, 1}, bw \in {1, 2}, bc \in {1, 2},
             ig \in BOOLEAN, d \in WideReplicationDb }
      [] check = "check_threads_usage" ->
           { [warning |-> w, critical |-> c] : w \in Percents, c \in Percents }
      [] check = "check_user_connections" ->
           { [username |-> "root", alert_level |-> a, warning |-> w, critical |-> c,
              db |-> [count |-> n, fails |-> FALSE]] :
             a \in {"warning", "critical"}, w \in Thresholds, c \in Thresholds,
             n \in Counts }
           \cup { [username |-> "root", alert_level |-> "warning", warning |-> 1,
                   critical |-> 0, db |-> [count |-> 0, fails |-> TRUE]] }
      [] check = "check_connections" ->
           { [warning |-> w, critical |-> c] :
             w \in Percents, c \in {Int_(95)} \cup {Str_(x) : x \in Percents} }
      [] check = "check_slave_connections" ->
           { [warning |-> w, critical |-> c, db |-> [slaves |-> n, fails |-> f]] :
             w \in Thresholds, c \in Thresholds, n \in Counts, f \in BOOLEAN }
      [] check = "check_liquibase" ->
           { [database |-> "", table |-> "DATABASECHANGELOGLOCK",
              warning |-> w, critical |-> c,
              db |-> [fails |-> FALSE, lock_tables |-> t]] :
             w \in {1, 2}, c \in {2, 3},
             t \in {<<>>} \cup {<<a>> : a \in LockTableRows}
                   \cup {<<a, b>> : a \in LockTableRows, b \in LockTableRows} }
           \cup { [database |-> "", table |-> "DATABASECHANGELOGLOCK",
                   warning |-> 1, critical |-> 2,
                   db |-> [fails |-> TRUE, lock_tables |-> <<>>]] }
      [] check = "check_definer" ->
           { [targets |-> t,
              db |-> [fails |-> f, users |-> {Root},
                      definers |-> [views |-> v, routines |-> r]]] :
             t \in { <<"views", "routines">>, <<"views", "views">>,
                     <<"views", "routines", "views">> },
             f \in BOOLEAN,
             v \in { <<>>, <<Root>>, <<Bob>>, <<Root, Bob>> },
             r \in { <<>>, <<Bob>> } }

Snapshots == IF plan.mode = "one" THEN WideSnapshots(plan.check) ELSE NarrowSnapshots

Args(check) == IF plan.mode = "one" THEN WideArgs(check) ELSE NarrowArgs(check)

----------------------------------------------------------------------------
(* main and status *)

\* main, lines 1160-1178, with the REPLICATION SLAVE branch left out
main_exit_code_no_priv(mysql_err_code) ==
    IF mysql_err_code \in {MYSQL_HOST_NOT_ALLOWED, MYSQL_ACCESS_DENIED}
    THEN state_warning
    ELSE IF mysql_err_code = MYSQL_UNKOWN_HOST THEN state_unknown
    ELSE state_critical

\* main, lines 1160-1178: the exit code for a connection that failed
main_exit_code(mysql_err_code) ==
    IF mysql_err_code \in {MYSQL_HOST_NOT_ALLOWED, MYSQL_ACCESS_DENIED}
    THEN state_warning
    ELSE IF mysql_err_code = MYSQL_UNKOWN_HOST THEN state_unknown
    ELSE IF mysql_err_code = MYSQL_REPLICATION_SLAVE_PRIV THEN state_warning
    ELSE state_critical

\* main, lines 1157-1177: the line printed for a connection that failed
main_failure_line(mysql_err_code) ==
    IF mysql_err_code \in {MYSQL_HOST_NOT_ALLOWED, MYSQL_ACCESS_DENIED}
    THEN <<"Warning - {}", "User is not allowed to connect">>
    ELSE IF mysql_err_code = MYSQL_UNKOWN_HOST
    THEN <<"Unknown - {}", "No service is listening on {}:{}">>
    ELSE IF mysql_err_code = MYSQL_REPLICATION_SLAVE_PRIV
    THEN <<"User has unsufficient privileges (REPLICATION SLAVE)">>
    ELSE <<"Critical - {}", "Database Connection failed">>

\* MySQLServer.__init__ when the connection opens and the three statements
\* of lines 85-87 return
__init__(snapshot) ==
    [NewServer EXCEPT !._connection = "open",
                      !.opened = {"primary"},
                      !.executed = 3,
                      !._mysql = snapshot,
                      !._is_slave = snapshot.slave # None]

\* Whether status may call the check now.  In a run of status the checks
\* come in the order of lines 729-779, each at most once, a disabled check
\* being passed over; in the runs that call the checks directly they come in
\* any order.
CanRun(check) ==
    CASE plan.mode = "status" ->
           IF ran = <<>> THEN TRUE ELSE OrderOf(ran[Len(ran)]) < OrderOf(check)
      [] plan.mode = "free" ->
           Len(ran) < MaxCalls /\ \A i \in 1..Len(ran) : ran[i] # check
      [] plan.mode = "one" ->
           ran = <<>> /\ plan.check = check

\* The end of a call: the check returned, or its exception left status and
\* main, which catches MySQLServerConnectException only.
Called(check, a, s) ==
    /\ srv' = s
    /\ ran' = Append(ran, check)
    /\ call' = [check |-> check, a |-> a, before |-> srv]
    /\ IF s.exc # ""
       THEN pc' = "exit" /\ exit_code' = PY_UNCAUGHT_EXIT
       ELSE pc' = "status" /\ UNCHANGED exit_code
    /\ UNCHANGED <<plan, finalized>>

\* main: MySQLdb.connect raises, __init__ raises MySQLServerConnectException
main_connect_failed ==
    /\ pc = "main"
    /\ \E code \in ConnectErrorCodes :
         /\ srv' = [srv EXCEPT !.stdout = Append(@, main_failure_line(code))]
         /\ exit_code' = main_exit_code(code)
         /\ call' = [check |-> "connect", a |-> [code |-> code], before |-> srv]
    /\ pc' = "exit"
    /\ UNCHANGED <<ran, plan, finalized>>

\* self._mysql when the statement of lines 85-87 with this number raises:
\* _global_variables and _global_status set their entry to an empty dict
\* before they send their statement and fill it when it returns, and
\* _slave_status sets nothing before its statement returns.
snapshot_until(snapshot, statement) ==
    CASE statement = 1 -> [variables |-> <<>>]
      [] statement = 2 -> [variables |-> snapshot.variables, status |-> <<>>]
      [] statement = 3 -> [variables |-> snapshot.variables,
                           status |-> snapshot.status, slave |-> None]

\* main: the connection opens and one of the statements of lines 85-87
\* raises, the first (SHOW GLOBAL VARIABLES), the second (SHOW GLOBAL STATUS)
\* or the third (SHOW SLAVE STATUS), after the ones before it were sent; the
\* exception is not a MySQLServerConnectException
main_snapshot_failed ==
    /\ pc = "main"
    /\ \E snapshot \in Snapshots, statement \in 1..3 :
         /\ srv' = [NewServer EXCEPT !._connection = "open", !.opened = {"primary"},
                                     !._mysql = snapshot_until(snapshot, statement),
                                     !.executed = statement, !.exc = "OperationalError"]
         /\ call' = [check |-> "snapshot", a |-> [code |-> 0, statement |-> statement],
                     before |-> srv]
    /\ exit_code' = PY_UNCAUGHT_EXIT
    /\ pc' = "exit"
    /\ UNCHANGED <<ran, plan, finalized>>

\* main: server = MySQLServer(...), and status begins
main_connect ==
    /\ pc = "main"
    /\ \E snapshot \in Snapshots : srv' = __init__(snapshot)
    /\ pc' = "status"
    /\ UNCHANGED <<ran, exit_code, call, plan, finalized>>

call_check_heartbeat ==
    /\ pc = "status" /\ CanRun("check_heartbeat")
    /\ \E a \in Args("check_heartbeat") :
         Called("check_heartbeat", a, check_heartbeat(srv, a.table, a.column, a.db))

call_check_replication ==
    /\ pc = "status" /\ CanRun("check_replication")
    /\ \E a \in Args("check_replication") :
         Called("check_replication", a,
                check_replication(srv, a.threshold_seconds_warning,
                                  a.threshold_seconds_critical,
                                  a.threshold_bytes_warning,
                                  a.threshold_bytes_critical,
                                  a.ignore_readonly_warning, a.db))

call_check_threads_usage ==
    /\ pc = "status" /\ CanRun("check_threads_usage")
    /\ \E a \in Args("check_threads_usage") :
         Called("check_threads_usage", a, check_threads_usage(srv, a.warning, a.critical))

call_check_user_connections ==
    /\ pc = "status" /\ CanRun("check_user_connections")
    /\ \E a \in Args("check_user_connections") :
         Called("check_user_connections", a,
                check_user_connections(srv, a.username, a.alert_level,
                                       a.warning, a.critical, a.db))

call_check_connections ==
    /\ pc = "status" /\ CanRun("check_connections")
    /\ \E a \in Args("check_connections") :
         Called("check_connections", a, check_connections(srv, a.warning, a.critical))

call_check_slave_connections ==
    /\ pc = "status" /\ CanRun("check_slave_connections")
    /\ \E a \in Args("check_slave_connections") :
         Called("check_slave_connections", a,
                check_slave_connections(srv, a.warning, a.critical, a.db))

call_check_liquibase ==
    /\ pc = "status" /\ CanRun("check_liquibase")
    /\ \E a \in Args("check_liquibase") :
         Called("check_liquibase", a,
                check_liquibase(srv, a.database, a.table, a.warning, a.critical, a.db))

call_check_definer ==
    /\ pc = "status" /\ CanRun("check_definer")
    /\ \E a \in Args("check_definer") :
         Called("check_definer", a, check_definer(srv, a.targets, a.db))

\* status, lines 781-790, and sys.exit in main: the report and the exit code
status_return ==
    /\ pc = "status"
    /\ LET s == _print_status(srv, status_level(srv))
       IN  /\ srv' = s
           /\ exit_code' = IF s.exc # "" THEN PY_UNCAUGHT_EXIT ELSE status_result(s)
    /\ finalized' = srv
    /\ pc' = "exit"
    /\ UNCHANGED <<ran, call, plan>>

\* The formatter run once more on the object status left behind
print_again ==
    /\ pc = "exit" /\ srv.exc = "" /\ Len(srv.reports) = 1
    /\ srv' = _print_status(srv, status_level(srv))
    /\ UNCHANGED <<pc, ran, exit_code, call, plan, finalized>>

NoCall == [check |-> "", a |-> [code |-> 0], before |-> NewServer]

InitPlan(p) ==
    /\ pc = "main"
    /\ srv = NewServer
    /\ ran = <<>>
    /\ exit_code = -1
    /\ call = NoCall
    /\ plan = p
    /\ finalized = NewServer

\* A run of the program: main, status with any subset of the checks enabled
Init == InitPlan([mode |-> "status", check |-> ""])

\* The checks called in any order on the object main built
InitAnyOrder == InitPlan([mode |-> "free", check |-> ""])

\* A run of the program with one check enabled
InitOne == \E c \in Checks : InitPlan([mode |-> "one", check |-> c])

Next ==
    \/ main_connect_failed
    \/ main_snapshot_failed
    \/ main_connect
    \/ call_check_heartbeat
    \/ call_check_replication
    \/ call_check_threads_usage
    \/ call_check_user_connections
    \/ call_check_connections
    \/ call_check_slave_connections
    \/ call_check_liquibase
    \/ call_check_definer
    \/ status_return

NextPrint == Next \/ print_again

Spec == Init /\ [][Next]_vars

SpecAnyOrder == InitAnyOrder /\ [][Next]_vars

SpecOne == InitOne /\ [][Next]_vars

SpecPrint == InitOne /\ [][NextPrint]_vars

----------------------------------------------------------------------------
(* Properties *)

\* The object as the last check left it: the first _print_status pops the
\* first message of the bucket it prints, so once the report is printed the
\* object to look at is the one status handed to the formatter.
AfterChecks == IF Len(srv.reports) > 0 THEN finalized ELSE srv

\* The number of messages in the three buckets
MessageCount(self) ==
    Len(self._messages.ok) + Len(self._messages.warning) + Len(self._messages.critical)

InBucket(self, level, msg) ==
    \E i \in 1..Len(self._messages[level]) : self._messages[level][i] = msg

\* The maximum of a sequence of states, OK for the empty sequence
Max(a, b) == IF a >= b THEN a ELSE b
RECURSIVE SeqMax(_)
SeqMax(s) == IF s = <<>> THEN state_ok ELSE Max(Head(s), SeqMax(Tail(s)))

\* C1: whatever checks were called and in whatever order, the overall state
\* is the maximum of the states the checks passed to _set_state so far (OK
\* when none was passed); a maximum does not depend on the order, and since
\* the recorded states only grow in number the state is never lowered.
C1_SeverityRatchet == srv._state = SeqMax(srv.set_calls)

\* C1 witness: two checks were called, the first raised CRITICAL and the
\* second raised WARNING afterwards, and the report shows CRITICAL.
C1_Witness ==
    /\ pc = "exit" /\ Len(ran) = 2 /\ Len(srv.reports) = 1
    /\ \E i, j \in 1..Len(srv.set_calls) :
         i < j /\ srv.set_calls[i] = state_critical /\ srv.set_calls[j] = state_warning
    /\ srv._state = state_critical

\* C2: the overall state is never UNKNOWN; when status returns, the exit
\* code is the overall state, one of 0, 1, 2; and the exit code 3 comes only
\* from a connection that failed in main, before any check.
C2_ExitCode ==
    /\ srv._state \in {state_ok, state_warning, state_critical}
    /\ (pc = "exit" /\ Len(srv.reports) = 1 /\ srv.exc = "")
         => (exit_code = srv._state /\ exit_code \in {0, 1, 2})
    /\ exit_code = state_unknown => (call.check = "connect" /\ ran = <<>>)

\* C2 witness: status returned after a check made the state CRITICAL, and
\* the process exits with 2.
C2_Witness ==
    /\ pc = "exit" /\ Len(srv.reports) = 1 /\ ran # <<>>
    /\ srv._state = state_critical /\ exit_code = state_critical

\* Whether a statement of the last check failed (the inputs say so)
StatementFailed ==
    CASE call.check \in {"check_user_connections", "check_liquibase", "check_definer"} ->
           call.a.db.fails
      [] call.check = "check_slave_connections" ->
           call.a.db.fails /\ ~slave_connections_disabled(call.a.warning, call.a.critical)
      [] call.check = "check_heartbeat" ->
           call.a.db.write # "ok" /\ call.before._mysql.variables.read_only # "ON"
      [] OTHER -> FALSE

\* C3 as claimed: no exception leaves status, the report is printed at the
\* end of every run of status, and a check in which a statement failed
\* leaves the state CRITICAL with a message in the critical bucket.
C3_FailureIsolated ==
    /\ ran # <<>> => srv.exc = ""
    /\ (pc = "exit" /\ ran # <<>>) => Len(srv.reports) = 1
    /\ StatementFailed =>
         (AfterChecks._state = state_critical /\ AfterChecks._messages.critical # <<>>)

\* C4: a connection that fails with code c ends the process before any
\* check or statement, with 1 for 1045, 1130 and 1227, 3 for 2005 and 2
\* for every other code.
C4_ConnectFailureExit ==
    call.check = "connect" =>
       /\ pc = "exit" /\ ran = <<>> /\ srv.executed = 0 /\ srv.reports = <<>>
       /\ exit_code = (IF call.a.code \in {1045, 1130, 1227} THEN 1
                       ELSE IF call.a.code = 2005 THEN 3 ELSE 2)

\* C4 witness: the connection failed with 1227 and the process exits with 1.
C4_Witness ==
    call.check = "connect" /\ call.a.code = 1227 /\ exit_code = 1 /\ pc = "exit"

\* C5 as claimed: on a replica, when the connection to the source does not
\* open, check_replication returns and the lag comes from the fallback; and
\* the primary algorithm is the one used exactly when the connection opened.
C5_SourceConnectFailure ==
    (call.check = "check_replication" /\ call.before._is_slave) =>
       /\ call.a.db.master # "ok" => (srv.exc = "" /\ srv.lag_mode = "fallback")
       /\ srv.lag_mode = "primary" <=> call.a.db.master = "ok"

\* C6 as claimed: when the process ends every connection it opened is
\* closed, and the primary connection was closed exactly once.
C6_ConnectionsClosed ==
    pc = "exit" =>
       /\ \A c \in srv.opened : \E i \in 1..Len(srv.closed) : srv.closed[i] = c
       /\ "primary" \in srv.opened =>
            Cardinality({i \in 1..Len(srv.closed) : srv.closed[i] = "primary"}) = 1

\* C7 as claimed: the formatter run a second time prints what it printed
\* the first time, and the buckets and the perf-data list are still what
\* status handed to the first run.
C7_FormatterIdempotent ==
    Len(srv.reports) = 2 =>
       /\ srv.reports[1] = srv.reports[2]
       /\ srv._messages = finalized._messages
       /\ srv._perf_data = finalized._perf_data

\* Whether check_user_connections reported its message at the level: the
\* message is in that bucket alone, and the state is the level's
UserConnectionsReported(level) ==
    LET self == AfterChecks IN
    /\ Len(self._messages[level]) = 1
    /\ MessageCount(self) = 1
    /\ self._state = (CASE level = "ok" -> state_ok [] level = "warning" -> state_warning
                        [] level = "critical" -> state_critical)

UserConnectionsCalled ==
    call.check = "check_user_connections" /\ srv.exc = "" /\ ~call.a.db.fails

\* C8 as claimed: a count at or below the critical bound is reported as
\* CRITICAL when alert_level is 'critical' and as WARNING otherwise.
C8_CriticalBoundBreach ==
    (UserConnectionsCalled /\ call.a.db.count <= call.a.critical) =>
       IF call.a.alert_level = "critical"
       THEN UserConnectionsReported("critical")
       ELSE UserConnectionsReported("warning")

\* C8 amended: when alert_level is 'critical' a count at or below the
\* critical bound is CRITICAL; otherwise (and for a count above the critical
\* bound) the critical bound is ignored: a count at or below the warning
\* bound is WARNING, and any other count is OK.  So without 'critical' a
\* count at or below the critical bound is never CRITICAL, and it is WARNING
\* exactly when it is also at or below the warning bound.
C8_UserConnections ==
    UserConnectionsCalled =>
       LET n == call.a.db.count IN
       /\ (call.a.alert_level = "critical" /\ n <= call.a.critical)
            => UserConnectionsReported("critical")
       /\ (call.a.alert_level # "critical" /\ n <= call.a.critical)
            => /\ ~UserConnectionsReported("critical")
               /\ UserConnectionsReported("warning") <=> n <= call.a.warning
               /\ UserConnectionsReported("ok") <=> n > call.a.warning
       /\ (n > call.a.critical /\ n <= call.a.warning) => UserConnectionsReported("warning")
       /\ (n > call.a.critical /\ n > call.a.warning) => UserConnectionsReported("ok")

\* C8 witness: alert_level 'warning', a count at or below the critical
\* bound and the warning bound, reported as WARNING.
C8_Witness ==
    /\ UserConnectionsCalled /\ call.a.alert_level = "warning"
    /\ call.a.db.count <= call.a.critical /\ call.a.critical < call.a.warning
    /\ UserConnectionsReported("warning")

\* C9 as claimed: in check_replication on a replica, a SQL thread flag other
\* than 'Yes' leaves the state CRITICAL with "Replication SQL Thread is down"
\* in the critical bucket, and an IO thread flag other than 'Yes' leaves it
\* CRITICAL with "Replication IO Thread is down" in the critical bucket,
\* whatever the lags and thresholds.
C9_ThreadsDown ==
    (call.check = "check_replication" /\ call.before._is_slave) =>
       LET self  == AfterChecks
           slave == call.before._mysql.slave[1]
       IN  /\ slave.Slave_SQL_Running # "Yes" =>
                /\ self._state = state_critical
                /\ InBucket(self, "critical", <<"Replication SQL Thread is down">>)
           /\ slave.Slave_IO_Running # "Yes" =>
                /\ self._state = state_critical
                /\ InBucket(self, "critical", <<"Replication IO Thread is down">>)

\* The same for the calls in which the lag estimator of line 406 returned:
\* the flags are tested at lines 420-432, after it
C9_LagReturned ==
    (call.check = "check_replication" /\ srv.exc = "") => C9_ThreadsDown

\* The case of C9 in which the estimator returned: both threads down, both
\* lags below their thresholds, and the state is CRITICAL with the two
\* messages.
C9_Witness ==
    /\ call.check = "check_replication" /\ call.before._is_slave /\ srv.exc = ""
    /\ call.before._mysql.slave[1].Slave_SQL_Running = "No"
    /\ call.before._mysql.slave[1].Slave_IO_Running = "No"
    /\ Len(AfterChecks._messages.ok) = 1
    /\ AfterChecks._state = state_critical
    /\ InBucket(AfterChecks, "critical", <<"Replication SQL Thread is down">>)
    /\ InBucket(AfterChecks, "critical", <<"Replication IO Thread is down">>)

\* The critical bound of the last call as a number
CallCritical ==
    IF call.check = "check_connections" THEN call.a.critical.v ELSE call.a.critical

\* C10 as claimed: a threshold check called with warning = critical = -1
\* sends no statement, records no message and no perf datum and leaves the
\* state as it was; and the replica host count check called with any other
\* pair (its statement succeeding) records one perf datum and one message.
C10_SentinelSkips ==
    /\ ( /\ call.check \in {"check_threads_usage", "check_connections",
                            "check_user_connections", "check_slave_connections"}
         /\ call.a.warning = -1 /\ CallCritical = -1 )
       => /\ AfterChecks.executed = call.before.executed
          /\ AfterChecks._messages = call.before._messages
          /\ AfterChecks._perf_data = call.before._perf_data
          /\ AfterChecks._state = call.before._state
    /\ ( /\ call.check = "check_slave_connections"
         /\ ~(call.a.warning = -1 /\ call.a.critical = -1)
         /\ ~call.a.db.fails )
       => /\ Len(AfterChecks._perf_data) = Len(call.before._perf_data) + 1
          /\ MessageCount(AfterChecks) = MessageCount(call.before) + 1

\* Whether the last call is a usage check that computes a usage: thread usage
\* with a concurrency that is a number other than 0, or connection usage
\* with max_connections other than 0
UsageCalled ==
    \/ /\ call.check = "check_threads_usage"
       /\ call.before._mysql.variables.innodb_thread_concurrency # None
       /\ call.before._mysql.variables.innodb_thread_concurrency # Some(0)
    \/ /\ call.check = "check_connections"
       /\ call.before._mysql.variables.max_connections # 0

UsageNumerator ==
    IF call.check = "check_threads_usage"
    THEN call.before._mysql.status.Threads_running
    ELSE call.before._mysql.status.Threads_connected

UsageDenominator ==
    IF call.check = "check_threads_usage"
    THEN call.before._mysql.variables.innodb_thread_concurrency[1]
    ELSE call.before._mysql.variables.max_connections

\* Whether the one message of the last call is in the bucket of the level
\* and the state is what the level makes it
OneMessageAt(level) ==
    LET self == AfterChecks IN
    /\ Len(self._messages[level]) = 1
    /\ MessageCount(self) = 1
    /\ self._state = (CASE level = "ok" -> call.before._state
                        [] level = "warning" -> state_warning
                        [] level = "critical" -> state_critical)

\* C11 as claimed: a usage check records one perf datum and one message, in
\* the critical bucket with state CRITICAL iff numerator/denominator*100 >=
\* critical, in the warning bucket with state WARNING iff warning <= usage <
\* critical, and in the ok bucket with the state unchanged otherwise.
C11_UsageThresholds ==
    UsageCalled =>
       /\ srv.exc = ""
       /\ Len(AfterChecks._perf_data) = 1
       /\ IF UsageNumerator * 100 >= CallCritical * UsageDenominator
          THEN OneMessageAt("critical")
          ELSE IF UsageNumerator * 100 >= call.a.warning * UsageDenominator
          THEN OneMessageAt("warning")
          ELSE OneMessageAt("ok")

\* The same for the calls in which the critical bound is an int
C11_IntBounds ==
    (UsageCalled /\ (call.check = "check_connections" => call.a.critical.type = "int"))
       => C11_UsageThresholds

\* Whether the last call is check_heartbeat on a server that is not read-only
HeartbeatCalled ==
    call.check = "check_heartbeat" /\ call.before._mysql.variables.read_only # "ON"

HeartbeatFailure ==
    <<"{} failed to update unix timestamp ({})", <<"Heartbeat">>, call.a.db.error_text>>

\* C12 as claimed: check_heartbeat never raises; a write that succeeds puts
\* the heartbeat message in the ok bucket and leaves the state as it was, and
\* a write that fails puts a failure message in the critical bucket and
\* makes the state CRITICAL.
C12_HeartbeatNeverRaises ==
    HeartbeatCalled =>
       /\ srv.exc = ""
       /\ call.a.db.write = "ok" =>
            /\ InBucket(AfterChecks, "ok", <<"Heartbeat">>)
            /\ AfterChecks._state = call.before._state
       /\ call.a.db.write # "ok" =>
            /\ InBucket(AfterChecks, "critical", HeartbeatFailure)
            /\ AfterChecks._state = state_critical

\* The same for the writes that succeed or fail with an exception that
\* carries a code and a text, as the errors of the server do
C12_DriverErrors ==
    (HeartbeatCalled /\ call.a.db.write \in {"ok", "error"}) => C12_HeartbeatNeverRaises

\* The check that records a message or a perf token, by its text
Producer(text) ==
    CASE text[1] \in {"Heartbeat", "{} failed to update unix timestamp ({})"} ->
           "check_heartbeat"
      [] text[1] \in {"Replication SQL Thread is down", "Last Error: {}",
                      "Replication IO Thread is down",
                      "Slave is not operating in read only mode",
                      "Replication Master {}:{} Slave lag {}/{}",
                      "replication_lag_bytes={}b;{};{}",
                      "replication_lag_seconds={}s;{};{}"} -> "check_replication"
      [] text[1] \in {"Thread usage {}% Threads running {} Thread concurrency {} ",
                      "thread_usage={}%;{};{}"} -> "check_threads_usage"
      [] text[1] \in {"User {} has {} connections (w:{} c:{})",
                      "user_connected={};{};{}"} -> "check_user_connections"
      [] text[1] \in {"Connections used {}% Threads connected {} Max connections {}",
                      "connection_usage={}%;{};{}"} -> "check_connections"
      [] text[1] \in {"Slave connected {}", "slaves_connected={};{};{}"} ->
           "check_slave_connections"
      [] text[1] \in {"Liquibase lock held by {} in {} for {} seconds",
                      "Liquibase lock table {} not found", "Liquibase locks"} ->
           "check_liquibase"
      [] text[1] \in {"Definer for {}", "Definer [{}] in {} is broken"} -> "check_definer"

\* Whether the texts are in the order in which status calls their checks
InInvocationOrder(texts) ==
    \A i, j \in 1..Len(texts) :
       i < j => OrderOf(Producer(texts[i])) <= OrderOf(Producer(texts[j]))

\* The messages of a report, in the order of its lines: the one of the
\* summary line (there is none at level ok) and those of the detail lines
PrintedMessages(report) ==
    LET details == [i \in 1..(Len(report) - 2) |-> report[i + 1][3]]
    IN  IF report[1] = <<"Ok Database Health">> THEN details
        ELSE <<report[1][3]>> \o details

\* The perf tokens of the last line of a report
PrintedPerfData(report) == report[Len(report)][2]

ReportPrinted == Len(srv.reports) = 1 /\ srv.exc = ""

\* C13: the messages the formatter prints for the selected bucket, and the
\* perf tokens of the last line, are in the order in which status called the
\* checks that recorded them, whatever checks are enabled: what is printed is
\* the selected bucket and the perf-data list as the checks left them, and
\* both are in invocation order.
C13_InvocationOrder ==
    ReportPrinted =>
       LET report == srv.reports[1] IN
       /\ PrintedMessages(report) = finalized._messages[status_level(finalized)]
       /\ PrintedPerfData(report) = finalized._perf_data
       /\ InInvocationOrder(PrintedMessages(report))
       /\ InInvocationOrder(PrintedPerfData(report))

\* C13 witness: a CRITICAL report with messages of at least two checks, the
\* summary line being the one of the check called first, and perf tokens of
\* at least two checks.
C13_Witness ==
    /\ ReportPrinted /\ finalized._state = state_critical
    /\ LET printed == PrintedMessages(srv.reports[1])
           perf    == PrintedPerfData(srv.reports[1])
       IN  /\ Len(printed) >= 2
           /\ OrderOf(Producer(printed[1])) < OrderOf(Producer(printed[Len(printed)]))
           /\ Len(perf) >= 2
           /\ OrderOf(Producer(perf[1])) < OrderOf(Producer(perf[Len(perf)]))

\* Whether the last call is check_replication on a replica
ReplicationCalled == call.check = "check_replication" /\ call.before._is_slave

\* The row of SHOW SLAVE STATUS of the last call
CallSlave == call.before._mysql.slave[1]

\* The byte lag of the last call, as its perf datum shows it
LagBytesReported == AfterChecks._perf_data[1][2]

\* The sum of File_size over the entries i..Len(logs) of the list
RECURSIVE SizeFrom(_, _)
SizeFrom(logs, i) == IF i > Len(logs) THEN 0 ELSE logs[i].File_size + SizeFrom(logs, i + 1)

\* The first entry of the list with the name, or one past the end
FirstNamed(logs, name) ==
    IF \E i \in 1..Len(logs) : logs[i].Log_name = name
    THEN CHOOSE i \in 1..Len(logs) :
            /\ logs[i].Log_name = name
            /\ \A j \in 1..(i - 1) : logs[j].Log_name # name
    ELSE Len(logs) + 1

PrimaryCalled ==
    ReplicationCalled /\ call.a.db.master = "ok" /\ ~call.a.db.logs_fail /\ srv.exc = ""

\* C14: with the source connection open, the byte lag is the sum of
\* File_size from the entry named Relay_Master_Log_File, inclusive, through
\* the last entry, minus Exec_Master_Log_Pos; so when the matched file's size
\* is the executed position and one later file of size S follows, it is S.
C14_PrimaryLag ==
    PrimaryCalled =>
       LET logs == call.a.db.master_logs
           k    == FirstNamed(logs, CallSlave.Relay_Master_Log_File)
       IN  /\ srv.lag_mode = "primary"
           /\ LagBytesReported = SizeFrom(logs, k) - CallSlave.Exec_Master_Log_Pos
           /\ (k = Len(logs) - 1 /\ logs[k].File_size = CallSlave.Exec_Master_Log_Pos)
                => LagBytesReported = logs[Len(logs)].File_size

\* C14 witness: the replica has executed the whole of the file it applies,
\* one later file of size 2 follows, and the lag is 2.
C14_Witness ==
    /\ PrimaryCalled
    /\ call.a.db.master_logs = <<MasterLog(1, 1), MasterLog(2, 2)>>
    /\ CallSlave.Relay_Master_Log_File = BinLog(1)
    /\ CallSlave.Exec_Master_Log_Pos = 1
    /\ LagBytesReported = 2

\* Whether the last call is check_replication on a replica that could not
\* open the connection to its source and whose two log file names have a
\* numeric suffix
FallbackCalled ==
    /\ ReplicationCalled /\ call.a.db.master # "ok"
    /\ Len(CallSlave.Master_Log_File) = 2
    /\ Len(CallSlave.Relay_Master_Log_File) = 2

\* C15 as claimed: in fallback mode the byte lag is (suffix of
\* Master_Log_File - suffix of Relay_Master_Log_File) * max_binlog_size -
\* Exec_Master_Log_Pos, for every pair of file numbers.
C15_FallbackLag ==
    FallbackCalled =>
       /\ srv.exc = ""
       /\ srv.lag_mode = "fallback"
       /\ LagBytesReported =
            (CallSlave.Master_Log_File[2] - CallSlave.Relay_Master_Log_File[2])
               * call.before._mysql.variables.max_binlog_size.v
            - CallSlave.Exec_Master_Log_Pos

\* What the fallback does: for a source file number above the applied one
\* and max_binlog_size a number, the claimed value; for a file number not
\* above the applied one, 0; for a file number above the applied one and
\* max_binlog_size a str, a TypeError
C15_FallbackAsCoded ==
    FallbackCalled =>
       LET offset == CallSlave.Master_Log_File[2] - CallSlave.Relay_Master_Log_File[2]
           size   == call.before._mysql.variables.max_binlog_size
       IN  IF offset <= 0 THEN srv.exc = "" /\ LagBytesReported = 0
           ELSE IF size.type = "str" THEN srv.exc = "TypeError"
           ELSE srv.exc = "" /\ LagBytesReported = offset * size.v - CallSlave.Exec_Master_Log_Pos

\* Whether the source's log list of the last call is consistent with the
\* replica's status: the files are numbered consecutively, none is larger
\* than max_binlog_size, the last is the file the replica reads, the file
\* it applies is in the list, and the executed position is within that file
ConsistentLogs ==
    LET logs == call.a.db.master_logs
        size == call.before._mysql.variables.max_binlog_size.v
        k    == FirstNamed(logs, CallSlave.Relay_Master_Log_File)
    IN  /\ ReplicationCalled /\ call.a.db.master = "ok" /\ ~call.a.db.logs_fail
        /\ Len(CallSlave.Master_Log_File) = 2
        /\ logs # <<>>
        /\ \A i \in 1..(Len(logs) - 1) : logs[i + 1].Log_name[2] = logs[i].Log_name[2] + 1
        /\ \A i \in 1..Len(logs) : logs[i].File_size <= size
        /\ logs[Len(logs)].Log_name = CallSlave.Master_Log_File
        /\ k <= Len(logs)
        /\ CallSlave.Exec_Master_Log_Pos <= logs[k].File_size

\* The two results on the fixture of the last call
PrimaryResult == _diff_binlog_master_slave(call.before, FALSE, call.a.db)
FallbackResult == _diff_binlog_master_slave(call.before, TRUE, call.a.db)

\* C16 as claimed: on a consistent fixture the primary and the fallback
\* results both exist and differ by at most max_binlog_size.
C16_PrimaryFallbackAgree ==
    ConsistentLogs =>
       LET size == call.before._mysql.variables.max_binlog_size.v
           diff == PrimaryResult.lag_bytes - FallbackResult.lag_bytes
       IN  /\ PrimaryResult.exc = "" /\ FallbackResult.exc = ""
           /\ diff <= size /\ 0 - diff <= size

\* What holds of the two results on a consistent fixture when the fallback
\* returns one: the primary result is at most max_binlog_size above the
\* fallback result, and at most (file-number difference) * max_binlog_size
\* below it.
C16_AsCoded ==
    (ConsistentLogs /\ FallbackResult.exc = "") =>
       LET size   == call.before._mysql.variables.max_binlog_size.v
           offset == CallSlave.Master_Log_File[2] - CallSlave.Relay_Master_Log_File[2]
           diff   == PrimaryResult.lag_bytes - FallbackResult.lag_bytes
       IN  /\ PrimaryResult.exc = ""
           /\ diff <= size /\ 0 - diff <= offset * size

\* The last call made with seconds thresholds that no lag reaches: what
\* the thread flags, the read-only flag and the byte lag alone lead to
WithoutSecondsLag ==
    check_replication(call.before, 1000000, 1000000,
                      call.a.threshold_bytes_warning, call.a.threshold_bytes_critical,
                      call.a.ignore_readonly_warning, call.a.db)

\* C17 as claimed: when Seconds_Behind_Master is null the perf datum shows
\* replication_lag_seconds=-1, and the seconds comparison adds neither
\* WARNING nor CRITICAL nor a message to the warning or critical bucket,
\* whatever the seconds thresholds.
C17_NullSecondsBehind ==
    (ReplicationCalled /\ srv.exc = "" /\ CallSlave.Seconds_Behind_Master = None) =>
       /\ AfterChecks._perf_data[2] =
            <<"replication_lag_seconds={}s;{};{}", -1,
              call.a.threshold_seconds_warning, call.a.threshold_seconds_critical>>
       /\ AfterChecks._state = WithoutSecondsLag._state
       /\ AfterChecks._messages.warning = WithoutSecondsLag._messages.warning
       /\ AfterChecks._messages.critical = WithoutSecondsLag._messages.critical

\* The same for seconds thresholds above -1
C17_ThresholdsAboveSentinel ==
    (call.check = "check_replication" /\ call.a.threshold_seconds_warning > -1
        /\ call.a.threshold_seconds_critical > -1)
       => C17_NullSecondsBehind

\* How many times the summary line of check_replication is in the bucket
SummaryLines(self, level) ==
    Cardinality({ i \in 1..Len(self._messages[level]) :
                    self._messages[level][i][1] = "Replication Master {}:{} Slave lag {}/{}" })

\* C18 as claimed: after one call of check_replication the summary line is
\* at most once in the warning and critical buckets together, so never in
\* both and never twice in one.
C18_SummaryLineOnce ==
    (ReplicationCalled /\ srv.exc = "") =>
       SummaryLines(AfterChecks, "warning") + SummaryLines(AfterChecks, "critical") <= 1

\* What the code keeps to: the line is at most twice in the two buckets
\* together, once for the byte lag and once for the seconds lag, and it is in
\* the ok bucket exactly when the seconds lag is below its two thresholds
C18_AsCoded ==
    (ReplicationCalled /\ srv.exc = "") =>
       /\ SummaryLines(AfterChecks, "warning") + SummaryLines(AfterChecks, "critical") <= 2
       /\ SummaryLines(AfterChecks, "ok") <= 1

Levels == {"ok", "warning", "critical"}

\* The messages the last call appended to the bucket
Recorded(level) ==
    SubSeq(AfterChecks._messages[level], Len(call.before._messages[level]) + 1,
           Len(AfterChecks._messages[level]))

\* Whether the last call left the messages that were in the buckets where
\* they were
EarlierMessagesKept ==
    \A level \in Levels :
       /\ Len(call.before._messages[level]) <= Len(AfterChecks._messages[level])
       /\ SubSeq(AfterChecks._messages[level], 1, Len(call.before._messages[level]))
            = call.before._messages[level]

\* C19 as claimed: a message a check records goes to one bucket only, so no
\* message of the last call is in two buckets, and the messages recorded
\* before the call are still where they were.
C19_OneBucketPerMessage ==
    (call.check \in Checks /\ srv.exc = "") =>
       /\ EarlierMessagesKept
       /\ \A a, b \in Levels :
            a # b => \A i \in 1..Len(Recorded(a)), j \in 1..Len(Recorded(b)) :
                        Recorded(a)[i] # Recorded(b)[j]

\* The part of it that holds: no check moves or removes a message
C19_NeverMoved == (call.check \in Checks /\ srv.exc = "") => EarlierMessagesKept

\* C20: after the checks that returned, and before the formatter runs, the
\* state is CRITICAL iff the critical bucket is non-empty, and WARNING iff
\* the critical bucket is empty and the warning bucket is non-empty; and the
\* formatter that status then calls does not raise on an empty bucket.
C20_StateMatchesBuckets ==
    /\ (AfterChecks._connection = "open" /\ AfterChecks.exc = "") =>
          /\ AfterChecks._state = state_critical <=> AfterChecks._messages.critical # <<>>
          /\ AfterChecks._state = state_warning <=>
               (AfterChecks._messages.critical = <<>> /\ AfterChecks._messages.warning # <<>>)
    /\ finalized._connection = "open" => (srv.exc = "" /\ Len(srv.reports) >= 1)

\* C20 witness: the report of a run in which one check recorded a warning
\* and a later one a critical message: the state is CRITICAL with both
\* buckets non-empty, and the summary line is the first critical message.
C20_Witness ==
    /\ ReportPrinted /\ Len(ran) >= 2
    /\ finalized._state = state_critical
    /\ finalized._messages.critical # <<>> /\ finalized._messages.warning # <<>>
    /\ OrderOf(Producer(finalized._messages.warning[1]))
         < OrderOf(Producer(finalized._messages.critical[1]))
    /\ srv.reports[1][1][3] = finalized._messages.critical[1]

====
